---- MODULE Spec2Model ----
(***************************************************************************)
(* Model of the post-interaction layer of the mistodon social client:      *)
(* usePostInteractions (likePost, unlikePost, repost, unrepost and the     *)
(* count helpers) running against a path-addressable graph store.          *)
(*                                                                         *)
(* The graph is a map from paths to values.  A path that was never written *)
(* is outside the map's domain (JavaScript undefined); put(null) leaves a  *)
(* tombstone of kind "null".                                               *)
(***************************************************************************)
EXTENDS Integers, Sequences, FiniteSets, TLC

\* ------------------------------------------------------------------ bounds
MaxTime == 2        \* Date.now() yields a value in 1..MaxTime
MaxThrows == 1      \* store operations that raise an exception, per behaviour
MaxCalls == 3       \* calls of the hook's operations, per behaviour
MaxPending == 1     \* repost calls waiting on the store at the same time

Users == {"u1", "u2"}
Posts == {"p1"}
Times == 1..MaxTime

appName == "shogun-mistodon-clone-v1"

\* ------------------------------------------------------- JavaScript values
Undefined == [kind |-> "undefined"]
Null == [kind |-> "null"]
True == [kind |-> "boolean", value |-> TRUE]
False == [kind |-> "boolean", value |-> FALSE]
Str(s) == [kind |-> "string", s |-> s]
Obj(fields) == [kind |-> "object", f |-> fields]
\* the "_" metadata entry every node read from the store carries
Meta == Obj([soul |-> "#"])

\* JavaScript truthiness of the values that occur here
Truthy(v) == v.kind \notin {"undefined", "null"} /\ (v.kind = "boolean" => v.value)
\* `x && typeof x === 'string'`
IsString(v) == v.kind = "string"
\* `x && typeof x === 'object'`
IsObject(v) == v.kind = "object"
\* key.startsWith('_')
StartsWithUnderscore(k) == k = "_"

\* --------------------------------------------------------------- the store
VARIABLES
  graph,    \* the graph store: path -> value
  rp,       \* per user, the repost call that is waiting on the store
  last,     \* the call that returned most recently, and what it returned
  throws,   \* store operations that have raised so far
  calls     \* calls made so far

\* the components that read the store
VARIABLES
  detail,   \* PostDetail: route, React state and the registered cleanup
  screen,   \* PostDetail: what the last render put on the screen
  loads,    \* PostDetail: the loads started by the effect, oldest first
  hook,     \* useUserPostsBidirectional: React state of the hook
  subs,     \* useUserPostsBidirectional: subscriptions opened by loadPosts
  card,     \* PostCard: props and React state of one card
  issued,   \* PostCard: operations the card has issued so far
  thread,   \* the replies under one top-level post: reply -> its parent
  page,     \* what the top-level PostCard renders for the thread
  clock,    \* the device: the time in hours since the epoch and the time zone
  timeKeys  \* PostDetail: the timeline days the last effect run subscribed to

interactionVars == <<graph, rp, last, throws, calls>>
detailVars == <<detail, screen, loads>>
hookVars == <<hook, subs>>
cardVars == <<card, issued>>
threadVars == <<thread, page>>
clockVars == <<clock, timeKeys>>
\* everything outside usePostInteractions
viewVars == <<detailVars, hookVars, cardVars, threadVars, clockVars>>

vars == <<interactionVars, viewVars>>

IsProperPrefix(a, b) == Len(a) < Len(b) /\ SubSeq(b, 1, Len(a)) = a

\* keys of the children of an interior node
ChildKeys(g, path) ==
  {q[Len(path) + 1] : q \in {r \in DOMAIN g : IsProperPrefix(path, r)}}

\* gun.get(...).once(cb): the value handed to cb for the node at path
Read(g, path) ==
  IF path \in DOMAIN g THEN g[path]
  ELSE IF ChildKeys(g, path) # {}
       THEN Obj([k \in ChildKeys(g, path) |-> "link"])
       ELSE Undefined

\* a sequence of put(value) calls, in program order; each is <<path, value>>
ApplyWrites(g, ws) ==
  LET written == {ws[i][1] : i \in 1..Len(ws)}
      lastIdx(q) == CHOOSE i \in 1..Len(ws) :
                      /\ ws[i][1] = q
                      /\ \A j \in (i+1)..Len(ws) : ws[j][1] # q
  IN [q \in (DOMAIN g) \cup written |->
        IF q \in written THEN ws[lastIdx(q)][2] ELSE g[q]]

\* the puts that took effect when the fail-th one raised (0: none raised)
Effective(ws, fail) == IF fail = 0 THEN ws ELSE SubSeq(ws, 1, fail - 1)

PathsOf(ws) == {ws[i][1] : i \in 1..Len(ws)}

\* ----------------------------------------------------------- store layout
likesPath(root, postId, userPub) == <<root, "posts", postId, "likes", userPub>>
repostsPath(root, postId, userPub) == <<root, "posts", postId, "reposts", userPub>>
userSpacePath(userPub, postId) == <<"~", userPub, "posts", postId>>
usersIndexPath(userPub, postId) == <<"users", userPub, "posts", postId>>
hashPath(postId) == <<"#posts", postId>>
soulOf(postId) == <<"soul", postId>>
appPostPath(postId) == <<appName, "posts", postId>>

\* ------------------------------------------------------- published posts
\* A post id is the hash of its immutable fields: the id fixes them.
Content(postId) ==
  IF postId = "p1" THEN [authorPub |-> "u1", timestamp |-> 1]
                   ELSE [authorPub |-> "u2", timestamp |-> 2]

Payload(postId) ==
  Obj([id |-> postId, authorPub |-> Content(postId).authorPub,
       timestamp |-> Content(postId).timestamp])

\* publishPost: payload node, content-addressed pointer, author's post index
publishWrites(postId) ==
  << <<soulOf(postId), Payload(postId)>>,
     <<hashPath(postId), Str(soulOf(postId))>>,
     <<usersIndexPath(Content(postId).authorPub, postId),
       Obj([id |-> postId, timestamp |-> Content(postId).timestamp])>> >>

\* ------------------------------------------------------------ call results
Resolved(success, error) == [settled |-> "resolved", success |-> success, error |-> error]
Rejected == [settled |-> "rejected", success |-> FALSE, error |-> "uncaught"]
Ok == Resolved(TRUE, "")

\* the inputs of one call that the hook reads from its surroundings
AllEnv == [gun : BOOLEAN,          \* shogunCore?.gun is set
           isLoggedIn : BOOLEAN,   \* useShogun().isLoggedIn
           idThrows : BOOLEAN,     \* the identity lookup raises
           helperPub : BOOLEAN,    \* getCurrentUserPub(gun) returns the key (else null)
           userIsPub : BOOLEAN,    \* gun.user().is.pub is set
           sea : BOOLEAN]          \* gun.SEA is set

\* without a store there is no user object and no SEA to read; a lookup
\* that raises yields no key
Env ==
  {e \in AllEnv :
     /\ ~e.gun => (~e.idThrows /\ ~e.helperPub /\ ~e.userIsPub /\ ~e.sea)
     /\ e.idThrows => (~e.helperPub /\ ~e.userIsPub)}

\* likePost, unlikePost and unrepost never read gun.SEA
SyncEnv == {e \in Env : ~e.sea}

\* --------------------------------------------------------- identity lookup
\* getCurrentUserPub(gun): the current user's key, or null
getCurrentUserPub(u, env) == IF env.helperPub THEN Str(u) ELSE Null
\* gun.user().is.pub (a falsy value when user, user.is or user.is.pub is unset)
userIsPub(u, env) == IF env.userIsPub THEN Str(u) ELSE Null

\* ------------------------------------------------------ outcome of one call
NoWrite(g, result) == [graph |-> g, result |-> result, writes |-> {}, threw |-> FALSE]

\* try { puts; return {success: true} } catch { return {success: false, error} }
Attempt(g, ws, fail, error) ==
  [graph |-> ApplyWrites(g, Effective(ws, fail)),
   result |-> IF fail = 0 THEN Ok ELSE Resolved(FALSE, error),
   writes |-> PathsOf(Effective(ws, fail)),
   threw |-> fail # 0]

\* -------------------------------------------------------- likePost/unlikePost
\* faulty variant: the like is keyed by the post's author instead of the caller
likeWritesAuthorKey(userPub, postId) ==
  << <<likesPath(appName, postId, Content(postId).authorPub), True>>,
     <<likesPath("interactions", postId, Content(postId).authorPub), True>> >>

likeWrites(userPub, postId) ==
  << <<likesPath(appName, postId, userPub), True>>,
     <<likesPath("interactions", postId, userPub), True>> >>

\* faulty variant: the tombstone reaches the compatibility record only
unlikeWritesMirrorOnly(userPub, postId) ==
  << <<likesPath("interactions", postId, userPub), Null>> >>

\* faulty variant: unlike stores false instead of the tombstone
unlikeWritesFalse(userPub, postId) ==
  << <<likesPath(appName, postId, userPub), False>>,
     <<likesPath("interactions", postId, userPub), False>> >>

unlikeWrites(userPub, postId) ==
  << <<likesPath(appName, postId, userPub), Null>>,
     <<likesPath("interactions", postId, userPub), Null>> >>

likePost(g, u, postId, env, fail) ==
  IF ~env.gun \/ ~env.isLoggedIn
  THEN NoWrite(g, Resolved(FALSE, "Not authenticated"))
  ELSE IF env.idThrows
  THEN NoWrite(g, Rejected)
  ELSE LET userPub == getCurrentUserPub(u, env)
           actualUserPub == userIsPub(u, env)
       IN IF ~Truthy(userPub)
          THEN IF Truthy(actualUserPub)
               THEN Attempt(g, likeWrites(actualUserPub.s, postId), fail, "Failed to like post")
               ELSE NoWrite(g, Resolved(FALSE, "User not authenticated"))
          ELSE Attempt(g, likeWrites(userPub.s, postId), fail, "Failed to like post")

unlikePost(g, u, postId, env, fail) ==
  IF ~env.gun \/ ~env.isLoggedIn
  THEN NoWrite(g, Resolved(FALSE, "Not authenticated"))
  ELSE IF env.idThrows
  THEN NoWrite(g, Rejected)
  ELSE LET userPub == getCurrentUserPub(u, env)
           actualUserPub == userIsPub(u, env)
       IN IF ~Truthy(userPub)
          THEN IF Truthy(actualUserPub)
               THEN Attempt(g, unlikeWrites(actualUserPub.s, postId), fail, "Failed to unlike post")
               ELSE NoWrite(g, Resolved(FALSE, "User not authenticated"))
          ELSE Attempt(g, unlikeWrites(userPub.s, postId), fail, "Failed to unlike post")

\* -------------------------------------------------------- repost/unrepost
\* originalPost.timestamp || Date.now()
repostTimestamp(originalPost, now) ==
  IF "timestamp" \in DOMAIN originalPost.f THEN originalPost.f.timestamp ELSE now

\* the values Date.now() may yield there; || does not evaluate it when the
\* post carries a timestamp
NowIfRead(originalPost) ==
  IF "timestamp" \in DOMAIN originalPost.f THEN {1} ELSE Times

\* faulty variant: the repost entry is written, the index entry is not
repostWritesNoIndex(userPub, postId, ts, now1, now2) ==
  << <<repostsPath(appName, postId, userPub), Obj([timestamp |-> now1])>>,
     <<repostsPath("interactions", postId, userPub), Obj([timestamp |-> now2])>> >>

\* faulty variant: the repost is recorded inside the post's payload node
repostWritesInPayload(userPub, postId, ts, now1, now2) ==
  << <<soulOf(postId) \o <<"reposts", userPub>>, Obj([timestamp |-> now1])>>,
     <<repostsPath(appName, postId, userPub), Obj([timestamp |-> now1])>>,
     <<repostsPath("interactions", postId, userPub), Obj([timestamp |-> now2])>>,
     <<userSpacePath(userPub, postId), Obj([id |-> postId, timestamp |-> ts, reposted |-> TRUE])>>,
     <<usersIndexPath(userPub, postId), Obj([id |-> postId, timestamp |-> ts, reposted |-> TRUE])>> >>

repostWrites(userPub, postId, ts, now1, now2) ==
  << <<repostsPath(appName, postId, userPub), Obj([timestamp |-> now1])>>,
     <<repostsPath("interactions", postId, userPub), Obj([timestamp |-> now2])>>,
     <<userSpacePath(userPub, postId), Obj([id |-> postId, timestamp |-> ts, reposted |-> TRUE])>>,
     <<usersIndexPath(userPub, postId), Obj([id |-> postId, timestamp |-> ts, reposted |-> TRUE])>> >>

unrepostWrites(userPub, postId) ==
  << <<repostsPath(appName, postId, userPub), Null>>,
     <<repostsPath("interactions", postId, userPub), Null>>,
     <<userSpacePath(userPub, postId), Null>>,
     <<usersIndexPath(userPub, postId), Null>> >>

\* faulty variant: the isLoggedIn check is missing
repostGuardNoLogin(u, env) ==
  IF ~env.gun THEN Resolved(FALSE, "Not authenticated")
  ELSE IF env.idThrows THEN Rejected
  ELSE LET helper == getCurrentUserPub(u, env)
           userPub == IF ~Truthy(helper) /\ Truthy(userIsPub(u, env))
                      THEN userIsPub(u, env) ELSE helper
       IN IF ~Truthy(userPub) \/ ~Truthy(userIsPub(u, env))
          THEN Resolved(FALSE, "User not authenticated")
          ELSE Ok

\* the checks of repost and unrepost before their try block:
\* "" when they pass, else how the call ends
repostGuard(u, env) ==
  IF ~env.gun \/ ~env.isLoggedIn THEN Resolved(FALSE, "Not authenticated")
  ELSE IF env.idThrows THEN Rejected
  ELSE LET helper == getCurrentUserPub(u, env)
           userPub == IF ~Truthy(helper) /\ Truthy(userIsPub(u, env))
                      THEN userIsPub(u, env) ELSE helper
       IN IF ~Truthy(userPub) \/ ~Truthy(userIsPub(u, env))
          THEN Resolved(FALSE, "User not authenticated")
          ELSE Ok

\* the key repost and unrepost write under, once repostGuard has passed
repostUserPub(u, env) ==
  IF Truthy(getCurrentUserPub(u, env))
  THEN getCurrentUserPub(u, env).s ELSE userIsPub(u, env).s

unrepost(g, u, postId, env, fail) ==
  IF repostGuard(u, env) # Ok
  THEN NoWrite(g, repostGuard(u, env))
  ELSE Attempt(g, unrepostWrites(repostUserPub(u, env), postId), fail, "Failed to unrepost")

\* ------------------------------------------------------------------ counts
\* post.likes / post.reposts: the record node of a post as the store hands
\* it over, tombstones and the "_" metadata entry included; undefined when
\* nothing was ever written under it
PostRecord(g, postId, family) ==
  LET node == <<appName, "posts", postId, family>>
  IN IF ChildKeys(g, node) = {} THEN Undefined
     ELSE Obj([k \in ChildKeys(g, node) \cup {"_"} |->
                 IF k = "_" THEN Meta ELSE g[Append(node, k)]])

\* faulty variant: every key counts, tombstones too
countEntriesAll(record) ==
  IF ~Truthy(record) THEN 0
  ELSE Cardinality({k \in DOMAIN record.f : ~StartsWithUnderscore(k)})

\* Object.keys(r).filter(key => r[key] && !key.startsWith('_')).length
countEntries(record) ==
  IF ~Truthy(record) THEN 0
  ELSE Cardinality({k \in DOMAIN record.f :
                      Truthy(record.f[k]) /\ ~StartsWithUnderscore(k)})

getLikeCount(post) == countEntries(post.likes)
getRepostCount(post) == countEntries(post.reposts)

\* the Post object a view holds for postId
PostOf(g, postId) ==
  [id |-> postId, likes |-> PostRecord(g, postId, "likes"),
   reposts |-> PostRecord(g, postId, "reposts")]

\* ------------------------------------------------------------------ state
Idle == [pc |-> "idle", post |-> "none", userPub |-> "none",
         soul |-> <<>>, ready |-> FALSE, ans |-> Undefined, pre |-> <<>>]

NoCall == [op |-> "none", user |-> "none", post |-> "none", seen |-> "none",
           result |-> Ok, writes |-> {}, likes |-> 0, pre |-> <<>>]

\* the entries of user u for post postId as a call finds them:
\* <<repost entry, post-index entry, user-space index entry>>
Entries(g, u, postId) ==
  << Read(g, repostsPath(appName, postId, u)),
     Read(g, usersIndexPath(u, postId)),
     Read(g, userSpacePath(u, postId)) >>

\* consecutive successful likePost calls of one user on one post, up to 2
Streak(op, u, postId, result) ==
  LET same == last.user = u /\ last.post = postId /\ last.result.success
  IN IF ~result.success THEN 0
     ELSE IF op = "likePost"
          THEN IF same /\ last.op = "likePost" /\ last.likes >= 1 THEN 2 ELSE 1
     ELSE IF op = "unlikePost" /\ same /\ last.op = "likePost" THEN last.likes
     ELSE 0

\* what the surroundings offered the call: the first of its inputs that
\* stands in the way of an identity, or "key" when a public key is there
Seen(env) ==
  IF ~env.gun THEN "no store"
  ELSE IF ~env.isLoggedIn THEN "logged out"
  ELSE IF env.idThrows THEN "lookup raises"
  ELSE IF ~env.helperPub /\ ~env.userIsPub THEN "no key"
  ELSE "key"

Returned(op, u, postId, seen, o, pre) ==
  [op |-> op, user |-> u, post |-> postId, seen |-> seen, result |-> o.result,
   writes |-> o.writes, likes |-> Streak(op, u, postId, o.result), pre |-> pre]

\* a promise that has resolved runs its continuation (a microtask) before
\* anything else happens: no call starts and no store message is handled
\* between a once callback and the code after the await
Quiet == \A u \in Users : ~rp[u].ready

\* PostDetail before it is mounted: useState(null), useState(true), useState(null)
Unmounted ==
  [route |-> "none", ctx |-> "ready", loading |-> TRUE, error |-> "", post |-> 0,
   cur |-> 0]
\* nothing rendered
Blank == [kind |-> "none", id |-> "", message |-> "", likes |-> 0, reposts |-> 0]
\* useUserPostsBidirectional before it is mounted
HookUnmounted ==
  [mounted |-> FALSE, ctx |-> "not ready", posts |-> <<>>, loading |-> TRUE,
   cur |-> 0, repeat |-> FALSE]
\* the hour at which a behaviour starts: 00:00 UTC of day 8 of the epoch
FirstHour == 192

\* the operations a PostCard issues: like/unlike, repost/unrepost, reply
\* publish, delete
CardOps == {"like", "repost", "reply", "delete"}
\* no PostCard on the page; flying counts the calls of each operation that
\* have not settled, tagSubs lists the post ids of the live getPostTags
\* subscriptions, tagLog the <<slug, post id>> pairs they have delivered,
\* replyResult is what the last reply publish settled with
NoCard ==
  [shown |-> FALSE, post |-> [id |-> "", author |-> ""], currentUserPub |-> "none",
   showDeleteConfirm |-> FALSE, isDeleting |-> FALSE,
   isLiking |-> FALSE, isReposting |-> FALSE,
   showReplyForm |-> FALSE, replyContent |-> <<>>, isReplying |-> FALSE,
   replyResult |-> "none", flying |-> [op \in CardOps |-> 0],
   postTags |-> <<>>, tagSubs |-> <<>>, tagRepeat |-> FALSE, tagLog |-> {}]

Init ==
  /\ graph = << >>
  /\ rp = [u \in Users |-> Idle]
  /\ last = NoCall
  /\ throws = 0
  /\ calls = 0
  /\ detail = Unmounted
  /\ screen = Blank
  /\ loads = <<>>
  /\ hook = HookUnmounted
  /\ subs = <<>>
  /\ card = NoCard
  /\ issued = {}
  /\ thread = <<>>
  /\ page = <<>>
  /\ clock = [now |-> FirstHour, zone |-> "UTC"]
  /\ timeKeys = [at |-> FirstHour, days |-> <<>>]

\* a synchronous call: the whole handler runs in one step
Sync(op, u, postId, seen, o) ==
  /\ Quiet
  /\ calls < MaxCalls
  /\ calls' = calls + 1
  /\ o.threw => throws < MaxThrows
  /\ graph' = o.graph
  /\ throws' = IF o.threw THEN throws + 1 ELSE throws
  /\ last' = Returned(op, u, postId, seen, o, <<>>)
  /\ UNCHANGED rp
  /\ UNCHANGED viewVars

PublishPost(postId) ==
  /\ hashPath(postId) \notin DOMAIN graph
  /\ Sync("publishPost", Content(postId).authorPub, postId, "key",
          Attempt(graph, publishWrites(postId), 0, ""))

LikePost(u, postId) ==
  \E env \in SyncEnv, fail \in 0..2 :
    Sync("likePost", u, postId, Seen(env), likePost(graph, u, postId, env, fail))

UnlikePost(u, postId) ==
  \E env \in SyncEnv, fail \in 0..2 :
    Sync("unlikePost", u, postId, Seen(env), unlikePost(graph, u, postId, env, fail))

Unrepost(u, postId) ==
  \E env \in SyncEnv, fail \in 0..4 :
    Sync("unrepost", u, postId, Seen(env), unrepost(graph, u, postId, env, fail))

\* ---------------------------------------------------------------- repost
Awaiting(r) == r.pc \in {"soul", "post", "fallback"}

\* the node whose one-shot read the call is waiting on
ReadPath(r) ==
  CASE r.pc = "soul" -> hashPath(r.post)
    [] r.pc = "post" -> r.soul
    [] r.pc = "fallback" -> appPostPath(r.post)

\* what the call does with the value a one-shot read resolved to:
\* read the payload, read the fallback node, write the repost, or give up
resolveStep(pc, ans) ==
  CASE pc = "soul" -> IF IsString(ans) THEN "post" ELSE "fallback"
    [] pc = "post" -> IF IsObject(ans) THEN "write" ELSE "fallback"
    [] pc = "fallback" -> IF IsObject(ans) THEN "write" ELSE "notfound"

\* repost up to its first await
RepostCall(u, postId) ==
  /\ Quiet
  /\ rp[u].pc = "idle"
  /\ Cardinality({v \in Users : rp[v].pc # "idle"}) < MaxPending
  /\ calls < MaxCalls
  /\ calls' = calls + 1
  /\ \E env \in Env :
       IF repostGuard(u, env) # Ok
       THEN /\ last' = Returned("repost", u, postId, Seen(env),
                                NoWrite(graph, repostGuard(u, env)), <<>>)
            /\ UNCHANGED <<graph, rp, throws>>
       ELSE /\ rp' = [rp EXCEPT ![u] =
                       [pc |-> IF env.sea THEN "soul" ELSE "fallback",
                        post |-> postId, userPub |-> repostUserPub(u, env),
                        soul |-> <<>>, ready |-> FALSE, ans |-> Undefined,
                        pre |-> Entries(graph, u, postId)]]
            /\ UNCHANGED <<graph, last, throws>>
  /\ UNCHANGED viewVars

\* the store answers the pending one-shot read: once(cb) calls cb
Deliver(u) ==
  /\ Quiet
  /\ Awaiting(rp[u])
  /\ rp' = [rp EXCEPT ![u].ans = Read(graph, ReadPath(rp[u])), ![u].ready = TRUE]
  /\ UNCHANGED <<graph, last, throws, calls>>
  /\ UNCHANGED viewVars

\* the store raises while the read is issued: the catch block returns
ReadRaises(u) ==
  /\ Quiet
  /\ Awaiting(rp[u])
  /\ throws < MaxThrows
  /\ throws' = throws + 1
  /\ rp' = [rp EXCEPT ![u] = Idle]
  /\ last' = Returned("repost", u, rp[u].post, "key",
                      NoWrite(graph, Resolved(FALSE, "Failed to repost")), rp[u].pre)
  /\ UNCHANGED <<graph, calls>>
  /\ UNCHANGED viewVars

\* the continuation after an await issues the next one-shot read
ResumeRead(u) ==
  /\ rp[u].ready
  /\ resolveStep(rp[u].pc, rp[u].ans) \in {"post", "fallback"}
  /\ rp' = [rp EXCEPT ![u].pc = resolveStep(rp[u].pc, rp[u].ans),
                       ![u].soul = IF rp[u].pc = "soul" /\ IsString(rp[u].ans)
                                   THEN rp[u].ans.s ELSE <<>>,
                       ![u].ready = FALSE, ![u].ans = Undefined]
  /\ UNCHANGED <<graph, last, throws, calls>>
  /\ UNCHANGED viewVars

\* no post was resolved: return {success: false, error: 'Post not found'}
ResumeNotFound(u) ==
  /\ rp[u].ready
  /\ resolveStep(rp[u].pc, rp[u].ans) = "notfound"
  /\ rp' = [rp EXCEPT ![u] = Idle]
  /\ last' = Returned("repost", u, rp[u].post, "key",
                      NoWrite(graph, Resolved(FALSE, "Post not found")), rp[u].pre)
  /\ UNCHANGED <<graph, throws, calls>>
  /\ UNCHANGED viewVars

\* originalPost is set: the four puts, then {success: true}
ResumeWrite(u) ==
  /\ rp[u].ready
  /\ resolveStep(rp[u].pc, rp[u].ans) = "write"
  /\ \E now0 \in NowIfRead(rp[u].ans), now1 \in Times, fail \in 0..4 :
     \E now2 \in {t \in Times : t >= now1} :
       LET o == Attempt(graph,
                        repostWrites(rp[u].userPub, rp[u].post,
                                     repostTimestamp(rp[u].ans, now0), now1, now2),
                        fail, "Failed to repost")
       IN /\ o.threw => throws < MaxThrows
          /\ graph' = o.graph
          /\ throws' = IF o.threw THEN throws + 1 ELSE throws
          /\ last' = Returned("repost", u, rp[u].post, "key", o, rp[u].pre)
  /\ rp' = [rp EXCEPT ![u] = Idle]
  /\ UNCHANGED calls
  /\ UNCHANGED viewVars

Resume(u) == ResumeRead(u) \/ ResumeNotFound(u) \/ ResumeWrite(u)

Next ==
  \/ \E postId \in Posts : PublishPost(postId)
  \/ \E u \in Users, postId \in Posts : LikePost(u, postId)
  \/ \E u \in Users, postId \in Posts : UnlikePost(u, postId)
  \/ \E u \in Users, postId \in Posts : RepostCall(u, postId)
  \/ \E u \in Users, postId \in Posts : Unrepost(u, postId)
  \/ \E u \in Users : Deliver(u)
  \/ \E u \in Users : ReadRaises(u)
  \/ \E u \in Users : ResumeRead(u)
  \/ \E u \in Users : ResumeNotFound(u)
  \/ \E u \in Users : ResumeWrite(u)

Spec == Init /\ [][Next]_vars

\* The event loop runs the continuation of every resolved promise; nothing
\* obliges the store to answer a read.
LiveSpec == Spec /\ \A u \in Users : WF_vars(Resume(u))

\* ===================================================================
\* Properties
\* ===================================================================
Succeeded(op) == last.op = op /\ last.result.settled = "resolved" /\ last.result.success

\* the users other than u whose like entry for postId is set
OtherLikers(u, postId) ==
  {v \in Users \ {u} : Read(graph, likesPath(appName, postId, v)) = True}

InteractionOps == {"likePost", "unlikePost", "repost", "unrepost"}

Absent(v) == v.kind \in {"undefined", "null"}
SameEntry(a, b) == (Absent(a) /\ Absent(b)) \/ a = b

\* C2: a successful repost followed by a successful unrepost of the same
\* user on the same post leaves the user's repost entry and the user's
\* post-index entry as they were before the repost.
C2_RepostSymmetry ==
  [][(/\ Succeeded("repost")
      /\ last'.op = "unrepost" /\ last'.result.success
      /\ last'.user = last.user /\ last'.post = last.post)
     => /\ SameEntry(Read(graph', repostsPath(appName, last.post, last.user)), last.pre[1])
        /\ SameEntry(Read(graph', usersIndexPath(last.user, last.post)), last.pre[2])]_vars

IsRepostEntry(v) == IsObject(v) /\ DOMAIN v.f = {"timestamp"} /\ v.f.timestamp \in Times
IsRepostedRef(v, postId) ==
  /\ IsObject(v) /\ DOMAIN v.f = {"id", "timestamp", "reposted"}
  /\ v.f.id = postId /\ v.f.timestamp \in Times /\ v.f.reposted = TRUE

\* C3: after a successful repost the user's repost entry holds {timestamp}
\* and the user's post-index entry holds {id, timestamp, reposted: true};
\* after a successful unrepost both hold null; a call that made only one of
\* the two writes does not report success.
C3_RepostWritesBoth ==
  /\ Succeeded("repost") =>
       /\ IsRepostEntry(Read(graph, repostsPath(appName, last.post, last.user)))
       /\ IsRepostedRef(Read(graph, usersIndexPath(last.user, last.post)), last.post)
  /\ Succeeded("unrepost") =>
       /\ Read(graph, repostsPath(appName, last.post, last.user)) = Null
       /\ Read(graph, usersIndexPath(last.user, last.post)) = Null
  /\ (last.op \in {"repost", "unrepost"} /\ last.result.success) =>
       {repostsPath(appName, last.post, last.user),
        usersIndexPath(last.user, last.post)} \subseteq last.writes

\* a repost that went through, of a post its user did not write
C3_Witness ==
  /\ Succeeded("repost")
  /\ Content(last.post).authorPub # last.user
  /\ IsRepostedRef(Read(graph, usersIndexPath(last.user, last.post)), last.post)

\* the user keys of a record of postId whose entry is set and not a tombstone
LiveKeys(postId, family) ==
  {u \in Users :
     /\ <<appName, "posts", postId, family, u>> \in DOMAIN graph
     /\ graph[<<appName, "posts", postId, family, u>>] # Null}

IsEntryPath(q) ==
  \E u \in Users, postId \in Posts :
    q \in {likesPath(appName, postId, u), likesPath("interactions", postId, u),
           repostsPath(appName, postId, u), repostsPath("interactions", postId, u),
           userSpacePath(u, postId), usersIndexPath(u, postId)}

Under(g, node) ==
  [q \in {r \in DOMAIN g : r = node \/ IsProperPrefix(node, r)} |-> g[q]]

\* C5: a step of likePost, unlikePost, repost or unrepost leaves every post
\* payload node and every entry of the content-addressed table as it was.
C5_PayloadUntouched ==
  [][(graph' # graph /\ last'.op \in InteractionOps)
     => \A postId \in Posts :
          /\ Under(graph', soulOf(postId)) = Under(graph, soulOf(postId))
          /\ Under(graph', hashPath(postId)) = Under(graph, hashPath(postId))]_vars

\* a published post that has just been reposted
C5_Witness ==
  /\ Succeeded("repost")
  /\ last.writes # {}
  /\ Read(graph, soulOf(last.post)) = Payload(last.post)
  /\ Read(graph, hashPath(last.post)) = Str(soulOf(last.post))

LikePaths ==
  {q \in DOMAIN graph : Len(q) = 5 /\ q[2] = "posts" /\ q[4] = "likes"}
RepostPaths ==
  {q \in DOMAIN graph : Len(q) = 5 /\ q[2] = "posts" /\ q[4] = "reposts"}

\* C6: every like entry is true or null and every repost entry is a
\* {timestamp} object or null; what unlikePost and unrepost write is null.
C6_EntryValues ==
  /\ \A q \in LikePaths : graph[q] \in {True, Null}
  /\ \A q \in RepostPaths : graph[q] = Null \/ IsRepostEntry(graph[q])
  /\ last.op \in {"unlikePost", "unrepost"} => \A q \in last.writes : graph[q] = Null

\* an unlike that tombstoned a like, next to a live repost entry
C6_Witness ==
  /\ Succeeded("unlikePost")
  /\ Read(graph, likesPath(appName, last.post, last.user)) = Null
  /\ \E q \in RepostPaths : IsRepostEntry(graph[q])

NoIdentity == {"no store", "logged out", "no key"}
AuthErrors == {"Not authenticated", "User not authenticated"}

\* C7: a call of the four operations that finds no store, no login or no
\* public key resolves to {success: false} with an authentication error and
\* leaves the whole graph as it was.
C7_NoIdentityNoWrite ==
  [][(last'.op \in InteractionOps /\ last'.seen \in NoIdentity)
     => /\ graph' = graph
        /\ last'.result.settled = "resolved"
        /\ ~last'.result.success
        /\ last'.result.error \in AuthErrors
        /\ last'.writes = {}]_vars

\* a repost turned away for want of a key, over a graph that holds entries
C7_Witness ==
  /\ last.op = "repost" /\ last.seen = "no key"
  /\ last.result = Resolved(FALSE, "User not authenticated")
  /\ LikePaths # {}

\* the user whose key a path of the interaction layout carries
Owner(q) == IF q[1] \in {"~", "users"} THEN q[2] ELSE q[5]

EntriesOf(g, v) ==
  [q \in {r \in DOMAIN g :
            /\ r[1] \in {"~", "users", appName, "interactions"}
            /\ Owner(r) = v} |-> g[q]]

\* C8: a step of the four operations made by one user leaves the like,
\* repost and post-index entries of every other user as they were.
C8_OwnEntriesOnly ==
  [][(graph' # graph /\ last'.op \in InteractionOps)
     => \A v \in Users \ {last'.user} : EntriesOf(graph', v) = EntriesOf(graph, v)]_vars

\* a user's like went through on a post another user already likes
C8_Witness ==
  /\ Succeeded("likePost")
  /\ OtherLikers(last.user, last.post) # {}

\* C9: whatever happens during a call of the four operations, the promise
\* it returned resolves to a {success, error?} result.
C9_NeverRejects ==
  last.op \in InteractionOps => last.result.settled = "resolved"

\* C10: every repost call that is waiting on the store returns in the end.
C10_RepostReturns ==
  \A u \in Users : (rp[u].pc # "idle") ~> (rp[u].pc = "idle")


\* ------------------------------------------------------------ PostDetail
\* for (let i = 0; i < 7; i++): the timeline shards the effect subscribes to
NumShards == 7
Shards == 0..(NumShards - 1)
\* post ids a route can carry; "" is a route without a post id
Routes == {"p1", "p2"}
MaxLoads == 2       \* loads the effect starts, per behaviour

\* gun.get(appName).get('timeline').get(timeKey).get(postId); a shard is
\* named by its age in days
timelinePath(shard, postId) == <<appName, "timeline", shard, postId>>

\* what other peers have written and replication brings in, node by node and
\* in any order: the pointers, the payload, a like, a repost, and the
\* tombstone that a delete leaves on the timeline pointer
RemoteWrites ==
  UNION {{ <<hashPath(p), Str(soulOf(p))>>,
           <<timelinePath(0, p), Str(soulOf(p))>>,
           <<timelinePath(0, p), Null>>,
           <<soulOf(p), Payload(p)>>,
           <<likesPath(appName, p, "u1"), True>>,
           <<repostsPath(appName, p, "u2"), Obj([timestamp |-> 1])>> } : p \in Posts}

\* the closure of one run of the effect: found, the listeners, the timer,
\* the pending reads and the likes/reposts objects the callbacks fill;
\* fetches counts the payload reads the load has issued
NewLoad(postId) ==
  [postId |-> postId, cancelled |-> FALSE, found |-> FALSE,
   hashOn |-> TRUE, shards |-> Shards, timeout |-> "pending",
   read |-> "none", soul |-> <<>>, enrich |-> "none", author |-> "none",
   mapOn |-> FALSE, likes |-> {}, reposts |-> {}, raised |-> FALSE,
   fetches |-> 0]

\* the body of the effect up to the registration of listeners and timer
runEffect(d, ls, postId, ctx) ==
  IF ctx = "not ready"
  THEN [detail |-> [d EXCEPT !.route = postId, !.ctx = ctx, !.loading = FALSE,
                             !.cur = 0],
        loads |-> ls]
  ELSE IF postId = ""
  THEN [detail |-> [d EXCEPT !.route = postId, !.ctx = ctx,
                             !.error = "Post ID not provided",
                             !.loading = FALSE, !.cur = 0],
        loads |-> ls]
  ELSE IF ctx = "no store"
  THEN [detail |-> [d EXCEPT !.route = postId, !.ctx = ctx, !.cur = 0],
        loads |-> ls]
  ELSE [detail |-> [d EXCEPT !.route = postId, !.ctx = ctx, !.loading = TRUE,
                             !.error = "", !.cur = Len(ls) + 1],
        loads |-> Append(ls, NewLoad(postId))]

\* whether runEffect starts a load
StartsLoad(postId, ctx) == ctx = "ready" /\ postId # ""

\* a behaviour visits each post at most once and starts at most MaxLoads loads
MayRun(ls, postId, ctx) ==
  StartsLoad(postId, ctx) =>
    /\ Len(ls) < MaxLoads
    /\ \A i \in DOMAIN ls : ls[i].postId # postId

\* what the effect can find when it runs: <<postId, what useShogun and
\* useSocialProtocol offer>>
EffectInputs ==
  {<<p, "ready">> : p \in Routes}
    \cup {<<"p1", "not ready">>, <<"p1", "no store">>, <<"", "ready">>}

\* the function the effect returns: clearTimeout, then inside one try
\* hashNode.off() followed by the timeline cleanups, each in its own try
cleanupLoad(l, hashThrows, bad) ==
  [l EXCEPT !.cancelled = TRUE,
            !.timeout = IF @ = "pending" THEN "cleared" ELSE @,
            !.hashOn = hashThrows,
            !.shards = IF hashThrows THEN @ ELSE @ \cap bad,
            !.raised = hashThrows \/ bad # {}]

cleanup(ls, i, hashThrows, bad) ==
  IF i = 0 THEN ls ELSE [ls EXCEPT ![i] = cleanupLoad(ls[i], hashThrows, bad)]

\* shards whose off() may raise in one cleanup
ThrowingShards == {{}, {0}}

\* the interaction record a displayed post carries: the object the
\* map().once callbacks of its load fill
recordOf(keys) == IF keys = {} THEN Obj(<<>>) ELSE Obj([k \in keys |-> True])

\* the return statement of the component
Render(d, ls) ==
  IF d.route = "none" THEN Blank
  ELSE IF d.ctx = "not ready" THEN [Blank EXCEPT !.kind = "initializing"]
  ELSE IF d.loading THEN [Blank EXCEPT !.kind = "loading"]
  ELSE IF d.error # "" \/ d.post = 0
       THEN [Blank EXCEPT !.kind = "notfound", !.message = d.error]
  ELSE [kind |-> "post", id |-> ls[d.post].postId, message |-> "",
        likes |-> getLikeCount([likes |-> recordOf(ls[d.post].likes)]),
        reposts |-> getRepostCount([reposts |-> recordOf(ls[d.post].reposts)])]

\* everything PostDetail does not touch
besidesDetail == <<rp, last, throws, calls, hookVars, cardVars, threadVars, clockVars>>

\* replication delivers one remote write to the local store
Replicate(w) ==
  /\ \/ w[1] \notin DOMAIN graph
     \/ w[2] = Null /\ w[1] \in DOMAIN graph /\ graph[w[1]] # Null
  /\ graph' = ApplyWrites(graph, <<w>>)
  /\ UNCHANGED <<detailVars, besidesDetail>>

\* the component is mounted on a route: fresh state, then the effect; the
\* loads of a behaviour are those of one instance of the component
Mount(postId, ctx) ==
  /\ detail.route = "none"
  /\ loads = <<>>
  /\ LET r == runEffect(Unmounted, loads, postId, ctx)
     IN /\ detail' = r.detail
        /\ loads' = r.loads
        /\ screen' = Render(r.detail, r.loads)
  /\ UNCHANGED <<graph, besidesDetail>>

\* a dependency of the effect changes (the route's postId, isReady, the
\* store): the registered cleanup runs, then the effect runs again
Navigate(postId, ctx) ==
  /\ detail.route # "none"
  /\ MayRun(loads, postId, ctx)
  /\ \E hashThrows \in BOOLEAN, bad \in ThrowingShards :
       LET r == runEffect(detail, cleanup(loads, detail.cur, hashThrows, bad),
                          postId, ctx)
       IN /\ detail' = r.detail
          /\ loads' = r.loads
          /\ screen' = Render(r.detail, r.loads)
  /\ UNCHANGED <<graph, besidesDetail>>

\* the component is unmounted: the registered cleanup runs, the state is gone
Unmount ==
  /\ detail.route # "none"
  /\ \E hashThrows \in BOOLEAN, bad \in ThrowingShards :
       loads' = cleanup(loads, detail.cur, hashThrows, bad)
  /\ detail' = Unmounted
  /\ screen' = Blank
  /\ UNCHANGED <<graph, besidesDetail>>

\* faulty variant: a pointer is followed whether or not one was followed
\* before
loadPostFromSoulAgain(l, postSoul) ==
  IF ~Truthy(postSoul) \/ ~IsString(postSoul) THEN l
  ELSE [l EXCEPT !.found = TRUE, !.read = "pending", !.soul = postSoul.s,
                 !.fetches = @ + 1]

\* loadPostFromSoul up to the one-shot read of the payload
loadPostFromSoul(l, postSoul) ==
  IF ~Truthy(postSoul) \/ ~IsString(postSoul) \/ l.found THEN l
  ELSE [l EXCEPT !.found = TRUE, !.read = "pending", !.soul = postSoul.s,
                 !.fetches = @ + 1]

\* hashNode.on(cb): the store hands the current pointer to the listener
DeliverHashPointer(i) ==
  /\ i \in DOMAIN loads
  /\ loads[i].hashOn
  /\ hashPath(loads[i].postId) \in DOMAIN graph
  /\ loads' = [loads EXCEPT
                 ![i] = loadPostFromSoul(@, graph[hashPath(loads[i].postId)])]
  /\ UNCHANGED <<graph, detail, screen, besidesDetail>>

\* timelineNode.on(cb) of one shard
DeliverShardPointer(i, shard) ==
  /\ i \in DOMAIN loads
  /\ shard \in loads[i].shards
  /\ timelinePath(shard, loads[i].postId) \in DOMAIN graph
  /\ loads' = [loads EXCEPT
                 ![i] = loadPostFromSoul(@, graph[timelinePath(shard, loads[i].postId)])]
  /\ UNCHANGED <<graph, detail, screen, besidesDetail>>

\* a state setter called from a callback of a load: it reaches the
\* component only while the component is mounted
setState(d, next) == IF d.route # "none" THEN next ELSE d

\* gun.get(postSoul).once(cb): the callback of the payload read
DeliverPayload(i) ==
  /\ i \in DOMAIN loads
  /\ loads[i].read = "pending"
  /\ LET postData == Read(graph, loads[i].soul)
         d == IF IsObject(postData) THEN detail
              ELSE setState(detail,
                            [detail EXCEPT !.error = "Post data not found",
                                           !.loading = FALSE])
     IN /\ loads' = [loads EXCEPT
                       ![i].read = "done",
                       ![i].mapOn = IsObject(postData),
                       ![i].enrich = IF IsObject(postData) THEN "pending" ELSE "none"]
        /\ detail' = d
        /\ screen' = IF d = detail THEN screen ELSE Render(d, loads')
  /\ UNCHANGED <<graph, besidesDetail>>

\* likesNode.map().once(cb): one like entry is handed to the callback
DeliverLike(i, u) ==
  /\ i \in DOMAIN loads
  /\ loads[i].mapOn
  /\ likesPath(appName, loads[i].postId, u) \in DOMAIN graph
  /\ LET likeValue == graph[likesPath(appName, loads[i].postId, u)]
     IN loads' = [loads EXCEPT ![i].likes =
                    IF ~StartsWithUnderscore(u)
                       /\ (likeValue = True
                           \/ (IsObject(likeValue) /\ "_" \notin DOMAIN likeValue.f))
                    THEN @ \cup {u} ELSE @]
  /\ UNCHANGED <<graph, detail, screen, besidesDetail>>

\* repostsNode.map().once(cb): one repost entry is handed to the callback
DeliverRepost(i, u) ==
  /\ i \in DOMAIN loads
  /\ loads[i].mapOn
  /\ repostsPath(appName, loads[i].postId, u) \in DOMAIN graph
  /\ LET repostValue == graph[repostsPath(appName, loads[i].postId, u)]
     IN loads' = [loads EXCEPT ![i].reposts =
                    IF ~StartsWithUnderscore(u)
                       /\ IsObject(repostValue) /\ "_" \notin DOMAIN repostValue.f
                    THEN @ \cup {u} ELSE @]
  /\ UNCHANGED <<graph, detail, screen, besidesDetail>>

\* the 100 ms timer: post.likes = likes, post.reposts = reposts, getPostAuthor
EnrichTimer(i) ==
  /\ i \in DOMAIN loads
  /\ loads[i].enrich = "pending"
  /\ loads' = [loads EXCEPT ![i].enrich = "done", ![i].author = "pending"]
  /\ UNCHANGED <<graph, detail, screen, besidesDetail>>

\* the callback of getPostAuthor: setPost({...post, authorProfile}), setLoading(false)
AuthorCallback(i) ==
  /\ i \in DOMAIN loads
  /\ loads[i].author = "pending"
  /\ loads' = [loads EXCEPT ![i].author = "done"]
  /\ detail' = setState(detail,
                        [detail EXCEPT !.post = i, !.loading = FALSE])
  /\ screen' = IF detail.route # "none" THEN Render(detail', loads') ELSE screen
  /\ UNCHANGED <<graph, besidesDetail>>

\* the 8 second timer
TimeoutFires(i) ==
  /\ i \in DOMAIN loads
  /\ loads[i].timeout = "pending"
  /\ loads' = [loads EXCEPT ![i].timeout = "fired"]
  /\ detail' = IF loads[i].found THEN detail
               ELSE setState(detail,
                             [detail EXCEPT !.error = "Post not found",
                                            !.loading = FALSE])
  /\ screen' = IF detail' = detail THEN screen ELSE Render(detail', loads')
  /\ UNCHANGED <<graph, besidesDetail>>

\* the component renders again for a reason of its own (its replies change,
\* its parent renders): the screen shows what the state holds by now
Rerender ==
  /\ screen # Render(detail, loads)
  /\ screen' = Render(detail, loads)
  /\ UNCHANGED <<graph, detail, loads, besidesDetail>>

\* timers fire when their time has come
DetailTimers == \E i \in 1..MaxLoads : TimeoutFires(i) \/ EnrichTimer(i)

\* the store and the protocol call back
DetailCallbacks ==
  \E i \in 1..MaxLoads :
    \/ DeliverHashPointer(i)
    \/ \E shard \in Shards : DeliverShardPointer(i, shard)
    \/ DeliverPayload(i)
    \/ \E u \in Users : DeliverLike(i, u) \/ DeliverRepost(i, u)
    \/ AuthorCallback(i)

DetailNext ==
  \/ \E w \in RemoteWrites : Replicate(w)
  \/ \E in \in EffectInputs : Mount(in[1], in[2])
  \/ \E in \in EffectInputs : Navigate(in[1], in[2])
  \/ Unmount
  \/ \E i \in 1..MaxLoads : DeliverHashPointer(i)
  \/ \E i \in 1..MaxLoads, shard \in Shards : DeliverShardPointer(i, shard)
  \/ \E i \in 1..MaxLoads : DeliverPayload(i)
  \/ \E i \in 1..MaxLoads, u \in Users : DeliverLike(i, u)
  \/ \E i \in 1..MaxLoads, u \in Users : DeliverRepost(i, u)
  \/ \E i \in 1..MaxLoads : EnrichTimer(i)
  \/ \E i \in 1..MaxLoads : AuthorCallback(i)
  \/ \E i \in 1..MaxLoads : TimeoutFires(i)
  \/ Rerender

DetailSpec == Init /\ [][DetailNext]_vars
\* timers fire; whether the store ever calls back is up to the store
DetailLive == DetailSpec /\ WF_vars(DetailTimers)
\* timers fire and the store hands over what it holds
DetailFair == DetailSpec /\ WF_vars(DetailTimers) /\ WF_vars(DetailCallbacks)


\* ------------------------------------------------- PostDetail properties
NotFoundErrors == {"Post not found", "Post data not found"}
Live(i) == i \in DOMAIN loads /\ ~loads[i].cancelled /\ detail.route # "none"
Gone(i) == i \in DOMAIN loads /\ (loads[i].cancelled \/ detail.route = "none")

\* C11: PostDetail shows a not-found error only after the 8 second wait of a
\* load has elapsed; no value the store delivers before the timer fires (a
\* missing, null or non-object pointer or payload) puts the view into the
\* not-found error state
C11_NotFoundOnlyAfterWait ==
  (detail.route # "none" /\ detail.error \in NotFoundErrors)
    => \E i \in DOMAIN loads : loads[i].timeout = "fired"

\* C12: a pointer delivered before the payload has propagated is a transient
\* state: once the pointer is known to a running load whose timer has not
\* fired and the payload is readable, the post is eventually displayed
\* (unless the load is cancelled first)
PointerKnownPayloadReadable(i) ==
  IF ~Live(i) THEN FALSE
  ELSE /\ loads[i].found
       /\ loads[i].timeout = "pending"
       /\ IsObject(Read(graph, loads[i].soul))

Displayed(i) ==
  IF i \notin DOMAIN loads THEN FALSE
  ELSE Gone(i) \/ (screen.kind = "post" /\ screen.id = loads[i].postId)

C12_PointerBeforePayload ==
  \A i \in 1..MaxLoads : PointerKnownPayloadReadable(i) ~> Displayed(i)

\* C13: every load eventually leaves the loading state (the post is shown or
\* the timeout shows not-found), also when the payload read or the author
\* lookup never calls back
C13_LeavesLoading ==
  \A i \in 1..MaxLoads : Live(i) ~> (Gone(i) \/ ~detail.loading)

\* C14: after a load is cancelled by a cleanup in which no release raised,
\* its not-found timer is cleared and no subscription the load opened is
\* still standing
C14_CancelReleasesAll ==
  \A i \in DOMAIN loads :
    (loads[i].cancelled /\ ~loads[i].raised)
      => /\ loads[i].timeout # "pending"
         /\ ~loads[i].hashOn
         /\ loads[i].shards = {}
         /\ ~loads[i].mapOn

\* C18: a like or repost entry that the store delivers after the post is on
\* the screen is eventually reflected in the displayed counts
EntriesDelivered(i) ==
  IF ~Live(i) THEN FALSE
  ELSE /\ screen.kind = "post"
       /\ detail.post = i
       /\ loads[i].likes \cup loads[i].reposts # {}

EntriesShown(i) ==
  IF i \notin DOMAIN loads THEN FALSE
  ELSE \/ Gone(i)
       \/ screen.kind # "post"
       \/ detail.post # i
       \/ (/\ screen.likes = Cardinality(loads[i].likes)
           /\ screen.reposts = Cardinality(loads[i].reposts))

C18_LateEntriesShown ==
  \A i \in 1..MaxLoads : EntriesDelivered(i) ~> EntriesShown(i)

\* C19: when releasing the listener on the content-addressed table raises
\* during cleanup, the seven timeline-shard listeners are released all the same
C19_ReleaseIsolated ==
  \A i \in DOMAIN loads :
    (loads[i].cancelled /\ loads[i].hashOn) => loads[i].shards = {}


\* ---------------------------------------------- useUserPostsBidirectional
MaxSubs == 2        \* getUserPosts subscriptions opened, per behaviour

\* what the subscription hands to the callback: a post with an id and a
\* timestamp (0: none), a post without an id, or nothing
FeedIds == {"p1", "p2"}
Deliveries ==
  [id : FeedIds \cup {""}, timestamp : 0..MaxTime] \cup {[id |-> "", timestamp |-> 0]}

\* faulty variant: every delivery is appended
mapAppend(m, post) == Append(m, post)

\* postsMap.set(post.id, post): a Map keeps the place of a key it already has
mapSet(m, post) ==
  IF \E k \in DOMAIN m : m[k].id = post.id
  THEN [k \in DOMAIN m |-> IF m[k].id = post.id THEN post ELSE m[k]]
  ELSE Append(m, post)

\* faulty variant: the list keeps the order of the map
keepOrder(s) == s

\* put x behind every element that does not sort after it
InsertDesc(s, x) ==
  LET before == {k \in DOMAIN s : s[k].timestamp >= x.timestamp}
      n == IF before = {} THEN 0
           ELSE CHOOSE k \in before : \A j \in before : j <= k
  IN SubSeq(s, 1, n) \o <<x>> \o SubSeq(s, n + 1, Len(s))

\* Array.from(postsMap.values()).sort((a, b) => b.timestamp - a.timestamp)
RECURSIVE sortDesc(_)
sortDesc(s) ==
  IF s = <<>> THEN <<>>
  ELSE InsertDesc(sortDesc(SubSeq(s, 1, Len(s) - 1)), s[Len(s)])

\* the closure of one loadPosts call that subscribed
NewSub == [live |-> TRUE, timer |-> "pending", postsMap |-> <<>>, raised |-> FALSE]

\* faulty variant: the early return leaves the loading flag as it is
loadPostsQuiet(h, ss, ctx) ==
  IF ctx # "ready"
  THEN [hook |-> h, subs |-> ss, new |-> 0]
  ELSE [hook |-> [h EXCEPT !.loading = TRUE], subs |-> Append(ss, NewSub),
        new |-> Len(ss) + 1]

\* loadPosts: <<state of the hook, subscriptions, index of the new one or 0>>
loadPosts(h, ss, ctx) ==
  IF ctx # "ready"
  THEN [hook |-> [h EXCEPT !.loading = FALSE], subs |-> ss, new |-> 0]
  ELSE [hook |-> [h EXCEPT !.loading = TRUE], subs |-> Append(ss, NewSub),
        new |-> Len(ss) + 1]

\* the function loadPosts returns: clearTimeout, then cleanup() in a try
cancelSub(ss, i, throwsOff) ==
  IF i = 0 THEN ss
  ELSE [ss EXCEPT ![i].timer = IF @ = "pending" THEN "cleared" ELSE @,
                  ![i].live = throwsOff /\ @,
                  ![i].raised = throwsOff]

besidesHook == <<interactionVars, detailVars, cardVars, threadVars, clockVars>>

\* what the hook finds when loadPosts runs: isReady and a non-empty userPub,
\* or one of them missing
HookInputs == {"ready", "not ready"}

MayLoad(ss, ctx) == ctx = "ready" => Len(ss) < MaxSubs

\* the hook is mounted: the effect calls loadPosts and keeps its cleanup
HookMount(ctx) ==
  /\ ~hook.mounted
  /\ subs = <<>>
  /\ LET r == loadPosts([HookUnmounted EXCEPT !.mounted = TRUE], subs, ctx)
     IN /\ hook' = [r.hook EXCEPT !.cur = r.new, !.ctx = ctx]
        /\ subs' = r.subs
  /\ UNCHANGED besidesHook

\* loadPosts changes (userPub, isReady or getUserPosts changed): the effect's
\* cleanup runs, then the effect runs again
HookDepsChange(ctx) ==
  /\ hook.mounted
  /\ MayLoad(subs, ctx)
  /\ \E throwsOff \in BOOLEAN :
       LET r == loadPosts(hook, cancelSub(subs, hook.cur, throwsOff), ctx)
       IN /\ hook' = [r.hook EXCEPT !.cur = r.new, !.ctx = ctx]
          /\ subs' = r.subs
  /\ UNCHANGED besidesHook

\* refreshPosts(): loadPosts() is called and what it returns is dropped
RefreshPosts ==
  /\ hook.mounted
  /\ MayLoad(subs, hook.ctx)
  /\ LET r == loadPosts(hook, subs, hook.ctx)
     IN /\ hook' = r.hook
        /\ subs' = r.subs
  /\ UNCHANGED besidesHook

\* the callback handed to getUserPosts
DeliverPost(i, postWithAuthor) ==
  /\ i \in DOMAIN subs
  /\ subs[i].live
  /\ \E now \in Times :
       IF postWithAuthor.id = ""
       THEN UNCHANGED <<hook, subs>>
       ELSE LET post == [id |-> postWithAuthor.id,
                         timestamp |-> IF postWithAuthor.timestamp # 0
                                       THEN postWithAuthor.timestamp ELSE now]
                m == mapSet(subs[i].postsMap, post)
            IN /\ subs' = [subs EXCEPT ![i].postsMap = m]
               /\ hook' = IF hook.mounted
                          THEN [hook EXCEPT
                                  !.posts = sortDesc(m), !.loading = FALSE,
                                  !.repeat = \E k \in DOMAIN subs[i].postsMap :
                                               subs[i].postsMap[k].id = post.id]
                          ELSE hook
  /\ UNCHANGED besidesHook

\* the 5 second timer of one loadPosts call
HookTimer(i) ==
  /\ i \in DOMAIN subs
  /\ subs[i].timer = "pending"
  /\ subs' = [subs EXCEPT ![i].timer = "fired"]
  /\ hook' = IF subs[i].postsMap = <<>> /\ hook.mounted
             THEN [hook EXCEPT !.loading = FALSE] ELSE hook
  /\ UNCHANGED besidesHook

\* the hook is unmounted: the effect's cleanup runs
HookUnmount ==
  /\ hook.mounted
  /\ \E throwsOff \in BOOLEAN : subs' = cancelSub(subs, hook.cur, throwsOff)
  /\ hook' = [hook EXCEPT !.mounted = FALSE, !.cur = 0]
  /\ UNCHANGED besidesHook

FeedNext ==
  \/ \E ctx \in HookInputs : HookMount(ctx)
  \/ \E ctx \in HookInputs : HookDepsChange(ctx)
  \/ RefreshPosts
  \/ \E i \in 1..MaxSubs, d \in Deliveries : DeliverPost(i, d)
  \/ \E i \in 1..MaxSubs : HookTimer(i)
  \/ HookUnmount

FeedSpec == Init /\ [][FeedNext]_vars

\* ---------------------------------------------- useUserPostsBidirectional
\* properties

\* C15: after unmount no subscription and no timer opened by the hook is
\* left, however often refreshPosts was called (a subscription whose
\* cancellation handle raised aside)
C15_AllCancelledAtUnmount ==
  (~hook.mounted /\ subs # <<>>)
    => \A i \in DOMAIN subs :
         ~subs[i].raised => (~subs[i].live /\ subs[i].timer # "pending")

NoDuplicateIds(s) == \A j, k \in DOMAIN s : j # k => s[j].id # s[k].id

\* C16: the posts list never holds two entries with the same id, whatever
\* the subscription redelivers; a redelivery replaces the earlier entry
C16_NoDuplicatePosts ==
  /\ NoDuplicateIds(hook.posts)
  /\ \A i \in DOMAIN subs : NoDuplicateIds(subs[i].postsMap)

C16_Witness ==
  /\ hook.repeat
  /\ Len(hook.posts) = 2
  /\ hook.posts[1].timestamp > hook.posts[2].timestamp


\* --------------------------------------------------------------- getUserPosts
\* faulty variant: every entry of the index is yielded
getUserPostsAll(g, userPub) ==
  {postId \in Posts : IsObject(Read(g, usersIndexPath(userPub, postId)))}

\* the ids getUserPosts(userPub, onPost) yields: the entries of the user's
\* post index, those marked reposted left out
getUserPosts(g, userPub) ==
  {postId \in Posts :
     LET e == Read(g, usersIndexPath(userPub, postId))
     IN IsObject(e) /\ "reposted" \notin DOMAIN e.f}

\* C17: a post that user U reposted and did not author is never yielded by
\* getUserPosts(U)
C17_FeedExcludesReposts ==
  \A u \in Users, postId \in Posts :
    Content(postId).authorPub # u => postId \notin getUserPosts(graph, u)

C17_Witness ==
  /\ IsRepostedRef(Read(graph, usersIndexPath("u2", "p1")), "p1")
  /\ Content("p1").authorPub = "u1"
  /\ "p1" \in getUserPosts(graph, "u1")

\* ------------------------------------------------------------------ PostCard
\* post.author as a view hands it over and userPub of useShogun; "" stands
\* for undefined on either side (a payload that names no author, nobody
\* logged in), "none" for null, which === tells apart from undefined
CardPosts == [id : Posts, author : Users \cup {""}]
CardUsers == Users \cup {"none", ""}

\* faulty variant: every post counts as the user's own
isOwnPostAlways(post, currentUserPub) == TRUE

\* const isOwnPost = post.author === currentUserPub
isOwnPost(post, currentUserPub) == post.author = currentUserPub

besidesCard == <<interactionVars, detailVars, hookVars, threadVars, clockVars>>

\* the postTags effect: the cleanup of the previous run releases its
\* subscription, then getPostTags(post.id, ...) subscribes unless post.id is
\* empty
tagEffect(live, postId) == IF postId = "" THEN <<>> ELSE <<postId>>

\* a card is rendered for a post
ShowCard(post, user) ==
  /\ ~card.shown
  /\ card' = [NoCard EXCEPT !.shown = TRUE, !.post = post, !.currentUserPub = user,
                            !.tagSubs = tagEffect(<<>>, post.id)]
  /\ UNCHANGED <<issued, besidesCard>>

\* the card is removed from the page: the effect cleanup runs
HideCard ==
  /\ card.shown
  /\ card' = [NoCard EXCEPT !.tagSubs = tagEffect(card.tagSubs, "")]
  /\ UNCHANGED <<issued, besidesCard>>

\* somebody logs in or out: useShogun yields another userPub
SetUser(user) ==
  /\ card.shown
  /\ user # card.currentUserPub
  /\ card' = [card EXCEPT !.currentUserPub = user]
  /\ UNCHANGED <<issued, besidesCard>>

\* the parent hands the card another post; the card's state stays and the
\* postTags effect runs again when post.id changed
SetPost(post) ==
  /\ card.shown
  /\ post # card.post
  /\ card' = [card EXCEPT !.post = post,
                          !.tagSubs = IF post.id = card.post.id THEN @
                                      ELSE tagEffect(@, post.id)]
  /\ UNCHANGED <<issued, besidesCard>>

\* the delete button, rendered for an own post: setShowDeleteConfirm(true)
ClickDelete ==
  /\ card.shown
  /\ isOwnPost(card.post, card.currentUserPub)
  /\ ~card.showDeleteConfirm
  /\ card' = [card EXCEPT !.showDeleteConfirm = TRUE]
  /\ UNCHANGED <<issued, besidesCard>>

\* the No button of the confirmation
ClickNo ==
  /\ card.shown
  /\ isOwnPost(card.post, card.currentUserPub)
  /\ card.showDeleteConfirm
  /\ ~card.isDeleting
  /\ card' = [card EXCEPT !.showDeleteConfirm = FALSE]
  /\ UNCHANGED <<issued, besidesCard>>

\* the Yes button of the confirmation: handleDelete up to its await
ClickYes ==
  /\ card.shown
  /\ isOwnPost(card.post, card.currentUserPub)
  /\ card.showDeleteConfirm
  /\ ~card.isDeleting
  /\ IF card.isDeleting \/ ~isOwnPost(card.post, card.currentUserPub)
     THEN UNCHANGED <<card, issued>>
     ELSE /\ card' = [card EXCEPT !.isDeleting = TRUE, !.flying["delete"] = @ + 1]
          /\ issued' = issued \cup {[op |-> "deletePost", post |-> card.post.id,
                                     by |-> card.currentUserPub,
                                     author |-> card.post.author]}
  /\ UNCHANGED besidesCard

\* deletePost settles: handleDelete after its await; a rejected promise
\* ends the handler there
DeleteSettles(outcome) ==
  /\ card.shown
  /\ card.flying["delete"] > 0
  /\ card' = IF outcome = "rejects" THEN [card EXCEPT !.flying["delete"] = @ - 1]
             ELSE [card EXCEPT !.flying["delete"] = @ - 1, !.isDeleting = FALSE,
                               !.showDeleteConfirm = FALSE]
  /\ UNCHANGED <<issued, besidesCard>>

CardNext ==
  \/ \E post \in CardPosts, user \in CardUsers : ShowCard(post, user)
  \/ HideCard
  \/ \E user \in CardUsers : SetUser(user)
  \/ \E post \in CardPosts : SetPost(post)
  \/ ClickDelete
  \/ ClickNo
  \/ ClickYes
  \/ \E outcome \in {"success", "failure", "rejects"} : DeleteSettles(outcome)

CardSpec == Init /\ [][CardNext]_vars

\* C20: the card issues deletePost(post.id) only while the current user's key
\* equals the post's author; for another user's post no sequence of actions
\* on the card issues a delete
C20_DeleteOnlyOwnPost ==
  \A x \in issued : x.op = "deletePost" => x.by = x.author

C20_Witness ==
  /\ \E x \in issued : x.op = "deletePost"
  /\ card.shown
  /\ card.showDeleteConfirm
  /\ ~isOwnPost(card.post, card.currentUserPub)

\* ------------------------------------------------- repost of a missing post
\* no payload was ever stored for postId
NoPayload(g, postId) == soulOf(postId) \notin DOMAIN g

\* a repost call that got past its identity checks and whose reads did not
\* raise has returned
RepostAnswered ==
  /\ last.op = "repost"
  /\ last.result.settled = "resolved"
  /\ last.result.error \notin AuthErrors \cup {"Failed to repost"}

\* C22: repost of a post id that resolves to no payload returns
\* {success: false, error: 'Post not found'} and writes nothing, also when
\* like or repost records exist under that id
C22_RepostMissingPost ==
  (RepostAnswered /\ NoPayload(graph, last.post))
    => /\ last.result = Resolved(FALSE, "Post not found")
       /\ last.writes = {}

\* ------------------------------------------------------ the 'Reposted' flag
Pages == {"/", "/my-posts"}

\* the surroundings of a render in which user u is logged in and known
RenderEnv == {e \in SyncEnv : e.gun /\ e.isLoggedIn /\ ~e.idThrows
                              /\ (e.helperPub \/ e.userIsPub)}

\* !!(repostValue && (repostValue === true ||
\*    (typeof repostValue === 'object' && !repostValue._)))
IsRepostValue(v) ==
  /\ Truthy(v)
  /\ \/ v = True
     \/ v.kind = "object" /\ "_" \notin DOMAIN v.f

\* isReposted(post) of usePostInteractions, for the logged-in user u
isReposted(post, u, env) ==
  IF ~env.gun \/ ~env.isLoggedIn THEN FALSE
  ELSE LET userPub == IF Truthy(getCurrentUserPub(u, env))
                      THEN getCurrentUserPub(u, env) ELSE userIsPub(u, env)
       IN IF ~Truthy(userPub) THEN FALSE
          ELSE IF ~Truthy(post.reposts) THEN FALSE
          ELSE IF userPub.s \notin DOMAIN post.reposts.f THEN FALSE
          ELSE IsRepostValue(post.reposts.f[userPub.s])

\* const isRepostedPost = isMyPostsPage ? !isOwnPost : !isOwnPost && reposted
isRepostedPost(pathname, own, reposted) ==
  IF pathname = "/my-posts" THEN ~own ELSE ~own /\ reposted

\* the flag of the card that shows postId to user u on the page at pathname
RepostedFlag(g, pathname, postId, u, env) ==
  isRepostedPost(pathname,
                 isOwnPost([id |-> postId, author |-> Content(postId).authorPub], u),
                 isReposted(PostOf(g, postId), u, env))

\* the interaction record holds a repost entry of u that is not a tombstone
HasRepostEntry(g, postId, u) == Truthy(Read(g, repostsPath(appName, postId, u)))

\* C23: the 'Reposted' flag of a card is true only if the post is not the
\* current user's own and the interaction record holds a live repost entry
\* of that user; here for the card from which a user removes a repost that
\* of a published post had succeeded, on every page, after the removal has
\* succeeded
C23_RepostedFlagCanonical ==
  [][(/\ Succeeded("repost")
      /\ ~NoPayload(graph, last.post)
      /\ last'.op = "unrepost" /\ last'.result.success
      /\ last'.user = last.user /\ last'.post = last.post)
     => \A pathname \in Pages, env \in RenderEnv :
          RepostedFlag(graph', pathname, last.post, last.user, env)
            => /\ Content(last.post).authorPub # last.user
               /\ HasRepostEntry(graph', last.post, last.user)]_vars

\* --------------------------------------------- PostCard: reply, like, repost
\* what the textarea can hold, as sequences of characters: nothing, blanks
\* only, a word, a word after a blank
Texts == {<<>>, <<" ">>, <<"a">>, <<" ", "a">>}

IsSpace(c) == c = " "

RECURSIVE trimStart(_)
trimStart(t) ==
  IF t = <<>> THEN <<>>
  ELSE IF IsSpace(Head(t)) THEN trimStart(Tail(t)) ELSE t

RECURSIVE trimEnd(_)
trimEnd(t) ==
  IF t = <<>> THEN <<>>
  ELSE IF IsSpace(t[Len(t)]) THEN trimEnd(SubSeq(t, 1, Len(t) - 1)) ELSE t

\* faulty variant: the text is taken as typed
trimNone(t) == t

\* String.prototype.trim
trim(t) == trimEnd(trimStart(t))

Outcomes == {"success", "failure", "rejects"}

\* the Reply button: setShowReplyForm(!showReplyForm)
ToggleReplyForm ==
  /\ card.shown
  /\ card' = [card EXCEPT !.showReplyForm = ~@]
  /\ UNCHANGED <<issued, besidesCard>>

\* typing into the textarea, which is disabled while a reply is published
TypeReply(text) ==
  /\ card.shown
  /\ card.showReplyForm
  /\ ~card.isReplying
  /\ text # card.replyContent
  /\ card' = [card EXCEPT !.replyContent = text]
  /\ UNCHANGED <<issued, besidesCard>>

\* the Cancel button of the reply form
CancelReply ==
  /\ card.shown
  /\ card.showReplyForm
  /\ card' = [card EXCEPT !.showReplyForm = FALSE, !.replyContent = <<>>]
  /\ UNCHANGED <<issued, besidesCard>>

\* the form is submitted: handleReply up to its await
SubmitReply ==
  /\ card.shown
  /\ card.showReplyForm
  /\ IF trim(card.replyContent) = <<>> \/ card.isReplying
     THEN UNCHANGED <<card, issued>>
     ELSE /\ card' = [card EXCEPT !.isReplying = TRUE, !.flying["reply"] = @ + 1]
          /\ issued' = issued \cup {[op |-> "publishPost", text |-> card.replyContent,
                                     media |-> "null", replyToId |-> card.post.id,
                                     shown |-> card.post.id]}
  /\ UNCHANGED besidesCard

\* publishPost settles: handleReply after its await; a rejected promise
\* ends the handler there
ReplySettles(outcome) ==
  /\ card.shown
  /\ card.flying["reply"] > 0
  /\ card' =
       CASE outcome = "rejects" ->
              [card EXCEPT !.flying["reply"] = @ - 1, !.replyResult = outcome]
         [] outcome = "success" ->
              [card EXCEPT !.flying["reply"] = @ - 1, !.replyResult = outcome,
                           !.isReplying = FALSE, !.replyContent = <<>>,
                           !.showReplyForm = FALSE]
         [] outcome = "failure" ->
              [card EXCEPT !.flying["reply"] = @ - 1, !.replyResult = outcome,
                           !.isReplying = FALSE]
  /\ UNCHANGED <<issued, besidesCard>>

\* the like button: handleLike up to its await (likePost or unlikePost,
\* whichever `liked` selects)
ClickLike ==
  /\ card.shown
  /\ IF card.isLiking THEN UNCHANGED card
     ELSE card' = [card EXCEPT !.isLiking = TRUE, !.flying["like"] = @ + 1]
  /\ UNCHANGED <<issued, besidesCard>>

\* likePost / unlikePost settles: handleLike after its await, which no try
\* block encloses
LikeSettles(outcome) ==
  /\ card.shown
  /\ card.flying["like"] > 0
  /\ card' = IF outcome = "rejects" THEN [card EXCEPT !.flying["like"] = @ - 1]
             ELSE [card EXCEPT !.flying["like"] = @ - 1, !.isLiking = FALSE]
  /\ UNCHANGED <<issued, besidesCard>>

\* the repost / Remove button: handleRepost up to its await
ClickRepost ==
  /\ card.shown
  /\ IF card.isReposting THEN UNCHANGED card
     ELSE card' = [card EXCEPT !.isReposting = TRUE, !.flying["repost"] = @ + 1]
  /\ UNCHANGED <<issued, besidesCard>>

\* repost / unrepost settles: the finally block clears the flag
RepostSettles(outcome) ==
  /\ card.shown
  /\ card.flying["repost"] > 0
  /\ card' = [card EXCEPT !.flying["repost"] = @ - 1, !.isReposting = FALSE]
  /\ UNCHANGED <<issued, besidesCard>>

\* the cards and users of the operations model: one post of u1, seen by its
\* author or by u2, and another post of u2 for a change of the post prop
OpsPosts == {[id |-> "p1", author |-> "u1"], [id |-> "p2", author |-> "u2"]}
OpsUsers == Users

CardOpsNext ==
  \/ \E post \in OpsPosts, user \in OpsUsers : ShowCard(post, user)
  \/ HideCard
  \/ \E post \in OpsPosts : SetPost(post)
  \/ ToggleReplyForm
  \/ \E text \in Texts : TypeReply(text)
  \/ CancelReply
  \/ SubmitReply
  \/ \E outcome \in Outcomes : ReplySettles(outcome)
  \/ ClickLike
  \/ \E outcome \in Outcomes : LikeSettles(outcome)
  \/ ClickRepost
  \/ \E outcome \in Outcomes : RepostSettles(outcome)
  \/ ClickDelete
  \/ ClickNo
  \/ ClickYes
  \/ \E outcome \in Outcomes : DeleteSettles(outcome)

CardOpsSpec == Init /\ [][CardOpsNext]_vars

\* a text that is empty or holds nothing but white space
IsBlank(t) == \A i \in 1..Len(t) : IsSpace(t[i])

\* C21: every reply the card publishes has text that is neither empty nor
\* white space only, no media and the displayed post's id as replyToId; a publish
\* that settles clears and closes the reply form exactly when its result
\* reports success
C21_ReplyPublish ==
  /\ [](\A x \in issued : x.op = "publishPost" =>
          /\ ~IsBlank(x.text)
          /\ x.media = "null"
          /\ x.replyToId = x.shown)
  /\ [][(card.shown /\ card'.shown /\ card'.flying["reply"] < card.flying["reply"])
        => /\ (card'.replyResult = "success"
                 => card'.replyContent = <<>> /\ ~card'.showReplyForm)
           /\ (card'.replyResult # "success"
                 => /\ card'.replyContent = card.replyContent
                    /\ card'.showReplyForm = card.showReplyForm)]_vars

\* a reply with surrounding blanks was published and succeeded, and an
\* earlier text that is only blanks sits in a form that was opened again
C21_Witness ==
  /\ \E x \in issued : x.op = "publishPost" /\ x.text = <<" ", "a">>
  /\ card.replyResult = "success"
  /\ card.showReplyForm
  /\ card.replyContent = <<" ">>

\* the busy flag of each operation
Busy(c, op) ==
  CASE op = "like" -> c.isLiking
    [] op = "repost" -> c.isReposting
    [] op = "reply" -> c.isReplying
    [] op = "delete" -> c.isDeleting

\* C30: per card at most one call of each operation is in flight, and the
\* busy flag of an operation is false again once its call has settled,
\* whether it succeeded, returned a failure or threw
C30_OneInFlightFlagReleased ==
  \A op \in CardOps :
    /\ card.flying[op] <= 1
    /\ card.flying[op] = 0 => ~Busy(card, op)

\* ------------------------------------------------------- PostCard: tag list
\* tags as getPostTags delivers them; two of them share a slug
Tags == {[name |-> "Rust", slug |-> "rust"], [name |-> "rust", slug |-> "rust"],
         [name |-> "Go", slug |-> "go"], [name |-> "Gun", slug |-> "gun"]}

\* faulty variant: every delivered tag is appended
addTagAlways(prev, tag) == Append(prev, tag)

\* setPostTags(prev => prev.some(t => t.slug === tag.slug) ? prev : [...prev, tag])
addTag(prev, tag) ==
  IF \E i \in 1..Len(prev) : prev[i].slug = tag.slug THEN prev ELSE Append(prev, tag)

\* the getPostTags subscription calls back with a tag
DeliverTag(tag) ==
  /\ card.shown
  /\ card.tagSubs # <<>>
  /\ card' = [card EXCEPT
                !.postTags = addTag(@, tag),
                !.tagLog = @ \cup {<<tag.slug, card.tagSubs[1]>>},
                !.tagRepeat = @ \/ \E i \in 1..Len(card.postTags) :
                                     card.postTags[i].slug = tag.slug]
  /\ UNCHANGED <<issued, besidesCard>>

\* useSocialProtocol hands out another getPostTags: the effect runs again
TagDepsChange ==
  /\ card.shown
  /\ card' = [card EXCEPT !.tagSubs = tagEffect(@, card.post.id)]
  /\ UNCHANGED <<issued, besidesCard>>

TagPosts == [id : {"p1", "p2", ""}, author : {"u1"}]

TagNext ==
  \/ \E post \in TagPosts, user \in Users : ShowCard(post, user)
  \/ HideCard
  \/ \E post \in TagPosts : SetPost(post)
  \/ TagDepsChange
  \/ \E tag \in Tags : DeliverTag(tag)

TagSpec == Init /\ [][TagNext]_vars

NoDuplicateSlugs(s) ==
  \A i, j \in 1..Len(s) : s[i].slug = s[j].slug => i = j

\* C28: the tag list of a card never holds two tags with the same slug,
\* whatever is redelivered; a card holds at most one live tag subscription,
\* the one for its current post id, and none once it is unmounted
C28_TagsUniqueOneSubscription ==
  /\ NoDuplicateSlugs(card.postTags)
  /\ Len(card.tagSubs) <= 1
  /\ ~card.shown => card.tagSubs = <<>>
  /\ \A i \in 1..Len(card.tagSubs) : card.tagSubs[i] = card.post.id

\* a slug was redelivered under another name, two tags are listed, and the
\* post id has since become empty, which released the subscription
C28_Witness ==
  /\ card.shown
  /\ card.tagRepeat
  /\ Len(card.postTags) = 2
  /\ card.post.id = ""
  /\ card.tagSubs = <<>>

\* ------------------------------- useUserPostsBidirectional: order, loading
\* timers fire: the 5 second timer of a loadPosts call that is not cleared
\* runs its callback
FeedLive == FeedSpec /\ WF_vars(\E i \in 1..MaxSubs : HookTimer(i))

SortedDesc(s) ==
  \A j, k \in DOMAIN s : j < k => s[j].timestamp >= s[k].timestamp

\* C26: after every delivery the posts list is ordered by timestamp, newest
\* first, whatever the order of the deliveries
C26_PostsNewestFirst == SortedDesc(hook.posts)

\* two posts were delivered oldest first and are listed newest first
C26_Witness ==
  /\ Len(hook.posts) = 2
  /\ hook.posts[1].timestamp > hook.posts[2].timestamp
  /\ \E i \in DOMAIN subs :
       /\ Len(subs[i].postsMap) = 2
       /\ subs[i].postsMap[1] = hook.posts[2]
       /\ subs[i].postsMap[2] = hook.posts[1]

\* C27: while the hook is mounted a loading flag that is set is eventually
\* cleared (by the first delivery or by the 5 second timer); with the
\* protocol not ready or no userPub the flag is false and a loadPosts call
\* creates no subscription and no timer
C27_LoadingEnds ==
  /\ (hook.mounted /\ hook.loading) ~> (~hook.mounted \/ ~hook.loading)
  /\ []((hook.mounted /\ hook.ctx # "ready") => ~hook.loading)
  /\ [][(hook'.mounted /\ hook'.ctx # "ready") => Len(subs') = Len(subs)]_vars

\* the flag was cleared by the timer of a run that got no delivery, and the
\* hook has since been handed a protocol that is not ready
C27_Witness ==
  /\ hook.mounted
  /\ hook.ctx # "ready"
  /\ ~hook.loading
  /\ \E i \in DOMAIN subs : subs[i].timer = "fired" /\ subs[i].postsMap = <<>>

\* ------------------------------------------------ PostDetail: one fetch per load
\* the string pointers the store holds for postId in the sources the load
\* listens to
PointersFor(g, postId) ==
  {g[q].s : q \in {r \in {hashPath(postId)} \cup {timelinePath(sh, postId) : sh \in Shards} :
                     r \in DOMAIN g /\ IsString(g[r])}}

\* C24: a load starts the payload read at most once however many pointers
\* are delivered and redelivered by the hash listener and the shard
\* listeners; the read that starts is for a string pointer the store holds,
\* and a value that is no string starts none
C24_FetchAtMostOnce ==
  /\ [](\A i \in DOMAIN loads : loads[i].fetches <= 1)
  /\ [][\A i \in DOMAIN loads :
          loads'[i].fetches # loads[i].fetches
            => /\ ~loads[i].found
               /\ loads'[i].soul \in PointersFor(graph, loads[i].postId)]_vars

\* a load has read the payload once and still listens to the hash table and
\* to a shard that both hold a string pointer for its post
C24_Witness ==
  \E i \in DOMAIN loads :
    /\ loads[i].fetches = 1
    /\ loads[i].read = "done"
    /\ ~loads[i].cancelled
    /\ loads[i].hashOn /\ 0 \in loads[i].shards
    /\ hashPath(loads[i].postId) \in DOMAIN graph
    /\ timelinePath(0, loads[i].postId) \in DOMAIN graph
    /\ IsString(graph[timelinePath(0, loads[i].postId)])

\* ------------------------------------------------------------ reply threads
MaxReplies == 5     \* replies under the top-level post, per behaviour
maxDepth == 3

\* useReplies(postId).replies: the replies whose parent is x, in order of
\* arrival; post 0 is the top-level post, reply k is post k
repliesOf(t, x) == SelectSeq([k \in 1..Len(t) |-> k], LAMBDA k : t[k] = x)

RECURSIVE RepliesSection(_, _, _, _)
RECURSIVE renderReplies(_, _, _, _)

\* the replies.map of a RepliesSection at currentDepth d that is itself
\* nested in n sections: per reply its PostCard, which renders a
\* RepliesSection of its own with currentDepth 0, and below the card the
\* nested RepliesSection when d < maxDepth; the result lists
\* <<reply, number of sections around its card>> in render order
renderReplies(t, replies, d, n) ==
  IF replies = <<>> THEN <<>>
  ELSE LET reply == Head(replies)
       IN << <<reply, n>> >>
            \o RepliesSection(t, reply, 0, n + 1)
            \o (IF d < maxDepth THEN RepliesSection(t, reply, d + 1, n + 1) ELSE <<>>)
            \o renderReplies(t, Tail(replies), d, n)

RepliesSection(t, postId, currentDepth, n) ==
  renderReplies(t, repliesOf(t, postId), currentDepth, n)

\* a top-level PostCard: <RepliesSection postId={post.id} currentDepth={0} />
PostCard(t, postId) == RepliesSection(t, postId, 0, 1)

besidesThread == <<interactionVars, detailVars, hookVars, cardVars, clockVars>>

\* a reply to the top-level post or to one of its replies arrives and the
\* card renders again
ReplyArrives(parent) ==
  /\ Len(thread) < MaxReplies
  /\ parent \in 0..Len(thread)
  /\ thread' = Append(thread, parent)
  /\ page' = PostCard(thread', 0)
  /\ UNCHANGED besidesThread

ThreadNext == \E parent \in 0..MaxReplies : ReplyArrives(parent)

ThreadSpec == Init /\ [][ThreadNext]_vars

\* C29: under a top-level PostCard no reply is rendered deeper than the
\* depth limit allows (a section at currentDepth 0..maxDepth, so at most
\* maxDepth + 1 sections around a card), and no reply is rendered twice
C29_ThreadDepthBounded ==
  /\ \A k \in DOMAIN page : page[k][2] <= maxDepth + 1
  /\ \A j, k \in DOMAIN page : page[j][1] = page[k][1] => j = k

\* ------------------------------------------- PostDetail: the timeline window
MaxHours == 60      \* hours the clock advances, per behaviour
HoursPerDay == 24
\* the hour at which the zones that keep daylight saving time change their
\* offset: 01:00 UTC of day 9
Transition == 217

\* time zones of the device: UTC, fixed offsets east and west, a zone that
\* leaves daylight saving time at Transition and one that enters it then
Zones == {"UTC", "east", "west", "autumn", "spring"}

\* hours local time is ahead of UTC at the UTC hour t
offset(zone, t) ==
  CASE zone = "UTC" -> 0
    [] zone = "east" -> 5
    [] zone = "west" -> 0 - 5
    [] zone = "autumn" -> IF t < Transition THEN 2 ELSE 1
    [] zone = "spring" -> IF t < Transition THEN 1 ELSE 2

\* the UTC hour of a local wall-clock hour w: of a repeated hour the earlier
\* one, of a skipped hour the one the offset before the transition gives
toUTC(zone, w) ==
  LET cands == {t \in (w - 5)..(w + 5) : t + offset(zone, t) = w}
  IN IF cands # {} THEN CHOOSE t \in cands : \A u \in cands : t <= u
     ELSE w - offset(zone, Transition - 1)

\* date.toISOString().split('T')[0]: the UTC calendar day, as a day number
isoDay(t) == t \div HoursPerDay

\* const date = new Date(today); date.setDate(date.getDate() - i): the
\* same local wall-clock time i local calendar days earlier
setDateBack(zone, now, i) == toUTC(zone, (now + offset(zone, now)) - HoursPerDay * i)

\* timeKey of the i-th turn of the loop
timeKey(zone, now, i) == isoDay(setDateBack(zone, now, i))

besidesClock == <<interactionVars, detailVars, hookVars, cardVars, threadVars>>

\* an hour passes
Tick ==
  /\ clock.now < FirstHour + MaxHours
  /\ clock' = [clock EXCEPT !.now = @ + 1]
  /\ UNCHANGED <<timeKeys, besidesClock>>

\* the device is set to another time zone
SetZone(zone) ==
  /\ zone # clock.zone
  /\ clock' = [clock EXCEPT !.zone = zone]
  /\ UNCHANGED <<timeKeys, besidesClock>>

\* the effect of PostDetail runs: one timeline listener per turn of the loop
SubscribeShards ==
  /\ timeKeys' = [at |-> clock.now,
                  days |-> [k \in 1..NumShards |-> timeKey(clock.zone, clock.now, k - 1)]]
  /\ UNCHANGED <<clock, besidesClock>>

WindowNext ==
  \/ Tick
  \/ \E zone \in Zones : SetZone(zone)
  \/ SubscribeShards

WindowSpec == Init /\ [][WindowNext]_vars

\* C25: the timeline shards PostDetail subscribes to are exactly those of
\* the 7 most recent calendar days, today and the 6 days before it, keyed by
\* their UTC date; no older shard is subscribed
C25_WindowIsLastSevenDays ==
  timeKeys.days # <<>> =>
    {timeKeys.days[k] : k \in DOMAIN timeKeys.days}
      = {isoDay(timeKeys.at) - i : i \in 0..(NumShards - 1)}


\* ----------------- The author's post index under repost and unrepost
\* an index entry written by publishPost: {id, timestamp}, no reposted mark
IsAuthoredEntry(v) ==
  IsObject(v) /\ ("reposted" \notin DOMAIN v.f \/ v.f.reposted # TRUE)

\* C31: a post-index entry users/{U}/posts/{postId} that is not marked
\* reposted:true is left as it is by every step of repost and unrepost:
\* it is neither overwritten with a reposted marker nor tombstoned.
C31_AuthoredIndexKept ==
  [][\A u \in Users, postId \in Posts :
       (/\ IsAuthoredEntry(Read(graph, usersIndexPath(u, postId)))
        /\ last'.op \in {"repost", "unrepost"})
       => Read(graph', usersIndexPath(u, postId)) = Read(graph, usersIndexPath(u, postId))]_vars


\* --------- The app-scoped record and the global compatibility record
Families == {"likes", "reposts"}

\* whether a record holds a live entry of userPub
HasLiveEntry(g, root, postId, family, userPub) ==
  Truthy(Read(g, <<root, "posts", postId, family, userPub>>))

AllCompleted == \A u \in Users : rp[u].pc = "idle"

RecordsAgree(g) ==
  \A u \in Users, postId \in Posts, family \in Families :
    HasLiveEntry(g, appName, postId, family, u)
      <=> HasLiveEntry(g, "interactions", postId, family, u)

\* C32: whenever every call has completed, {appName}/posts/{postId}/likes|reposts
\* and interactions/posts/{postId}/likes|reposts agree, for every post and user,
\* on whether the user has a like and whether the user has a repost, also
\* after a call that failed part-way through its writes.
C32_RecordsAgree == AllCompleted => RecordsAgree(graph)


\* ------------------------- PostDetail: callbacks of a cancelled load
\* the part of the React state the callbacks of a load can set
Shown(d) == <<d.post, d.error, d.loading>>

\* a callback or timer of load i runs in this step
Acts(i) == i \in DOMAIN loads /\ loads'[i] # loads[i]

\* C33: the post PostDetail displays carries the id of the current route's
\* postId, and a callback of a cancelled load (the pending payload read, the
\* 100 ms enrichment timer, the author lookup) never changes the displayed
\* post, the error or the loading state.
C33_ShowsCurrentRoute ==
  /\ [](screen.kind = "post" => screen.id = detail.route)
  /\ [][\A i \in 1..MaxLoads :
          (Gone(i) /\ Acts(i)) => Shown(detail') = Shown(detail)]_vars


\* ---------- PostDetail: the post arrives after the not-found timeout
\* the timer of a running load has put up 'Post not found', and the pointer
\* and the payload are in the store by now
ArrivedAfterTimeout(i) ==
  IF ~Live(i) THEN FALSE
  ELSE /\ loads[i].timeout = "fired"
       /\ detail.error = "Post not found"
       /\ loads[i].hashOn
       /\ hashPath(loads[i].postId) \in DOMAIN graph
       /\ IsObject(Read(graph, soulOf(loads[i].postId)))

\* the running load has handed its post to setPost after its timer fired
LoadedAfterTimeout(i) ==
  IF ~Live(i) THEN FALSE
  ELSE /\ loads[i].timeout = "fired"
       /\ loads[i].author = "done"
       /\ detail.post = i

\* C34: while the subscriptions of a load are live, not-found is not final:
\* when pointer and payload arrive after the 8 second timer has fired, the
\* post is then displayed, and the view is never in a state where the post
\* has been loaded and the not-found error is what is shown.
C34_NotFoundNotFinal ==
  /\ [](\A i \in 1..MaxLoads :
          LoadedAfterTimeout(i) => Render(detail, loads).kind # "notfound")
  /\ \A i \in 1..MaxLoads : ArrivedAfterTimeout(i) ~> Displayed(i)


\* ------------------------------ PostCard: tags of an earlier post id
\* C35: every tag a PostCard shows was delivered for its current post.id:
\* after the post prop changed to a post with another id, the tags collected
\* for the previous id are no longer in the list.
C35_TagsOfCurrentPost ==
  card.shown =>
    \A i \in 1..Len(card.postTags) :
      <<card.postTags[i].slug, card.post.id>> \in card.tagLog

====
